---- MODULE Spec2Model ----
(***************************************************************************)
(* react-native-iconify: the runtime resolution pipeline of the           *)
(* IconifyIcon component (embedded bundle -> persistent cache -> network) *)
(* and the redundant multi-host fetcher (fetchIconData).                   *)
(***************************************************************************)
EXTENDS Integers, Sequences, FiniteSets, TLC

VARIABLES comp, res, store, fx, ld, tc, sc, bf, mc

vars == <<comp, res, store, fx, ld, tc, sc, bf, mc>>

(***************************************************************************)
(* Bounds and the small input sets.                                        *)
(***************************************************************************)
\* Total number of effect runs (resolutions) over all component instances.
MaxRes == 2

Comps == {"c1", "c2"}
BundledNames == {"mdi:home"}
RemoteNames == {"mdi:cog"}
Names == BundledNames \cup RemoteNames

\* JavaScript null / undefined.
Null == [null |-> TRUE]

Truthy(v) == v # Null

(***************************************************************************)
(* Module-level data of the component file.                                *)
(***************************************************************************)
\* The generated bundle: a map from identifier to IconData.
BUNDLED_ICONS == [n \in BundledNames |-> [name |-> n, body |-> "bundled"]]

\* const bundledIcon = BUNDLED_ICONS[name];
bundledIcon(name) ==
  IF name \in DOMAIN BUNDLED_ICONS THEN BUNDLED_ICONS[name] ELSE Null

getCacheKey(iconName) == "icon:" \o iconName

CacheKeys == {getCacheKey(n) : n \in Names}

\* What loadIcon resolves with for a name the network knows.
NetIcon(name) == [name |-> name, body |-> "net"]

\* The error codes loadIcon can reject with.
LoadErrors == {"NETWORK_ERROR"}

(***************************************************************************)
(* The persistent cache: NativeDiskCache over the native module, and      *)
(* TurboCache over NativeDiskCache.  The native store maps a key to the   *)
(* stored string, or to Null when it holds nothing under the key.          *)
(***************************************************************************)
\* A stored string that is not JSON.
Corrupt == [corrupt |-> TRUE]

\* A value JSON.stringify throws a TypeError on (a circular structure).
Circular == [circular |-> TRUE]

JSONstringify(data) == [json |-> data]

JSONparse(s) ==
  IF s = Corrupt
    THEN [threw |-> TRUE, code |-> "SyntaxError", value |-> Null]
    ELSE [threw |-> FALSE, code |-> "none", value |-> s.json]

\* NativeDiskCache.get: a native rejection is NATIVE_ERROR, an unparsable
\* stored string SERIALIZATION_ERROR, nothing stored is null.
NativeDiskCacheGet(st, key, nativeOk) ==
  IF ~nativeOk
    THEN [threw |-> TRUE, code |-> "NATIVE_ERROR", value |-> Null]
    ELSE IF ~Truthy(st[key])
      THEN [threw |-> FALSE, code |-> "none", value |-> Null]
      ELSE LET p == JSONparse(st[key]) IN
           IF p.threw
             THEN [threw |-> TRUE, code |-> "SERIALIZATION_ERROR", value |-> Null]
             ELSE [threw |-> FALSE, code |-> "none", value |-> p.value]

TurboCacheGetRethrows(st, key, nativeOk) == NativeDiskCacheGet(st, key, nativeOk)

\* TurboCache.get: every error of the native layer is logged and becomes null.
TurboCacheGet(st, key, nativeOk) ==
  LET r == NativeDiskCacheGet(st, key, nativeOk) IN
  IF r.threw
    THEN [threw |-> FALSE, code |-> "none", value |-> Null]
    ELSE r

NativeDiskCacheSetDrops(st, key, data, nativeOk) ==
  [threw |-> FALSE, code |-> "none", store |-> st]

\* NativeDiskCache.set: serialize, then setValue; a TypeError of the
\* serialization is SERIALIZATION_ERROR, a native rejection NATIVE_ERROR, and
\* both leave the store as it was.
NativeDiskCacheSet(st, key, data, nativeOk) ==
  IF data = Circular
    THEN [threw |-> TRUE, code |-> "SERIALIZATION_ERROR", store |-> st]
  ELSE IF nativeOk
    THEN [threw |-> FALSE, code |-> "none",
          store |-> [st EXCEPT ![key] = JSONstringify(data)]]
    ELSE [threw |-> TRUE, code |-> "NATIVE_ERROR", store |-> st]

\* TurboCache.set: logs and rethrows.
TurboCacheSet(st, key, data, nativeOk) == NativeDiskCacheSet(st, key, data, nativeOk)

(***************************************************************************)
(* The IconifyIcon component.  comp[c] is the state of the instance        *)
(* mounted in slot c (its props and its four useState cells); res is the   *)
(* log of effect runs, one record per resolution, in start order.          *)
(***************************************************************************)
Unmounted ==
  [mounted |-> FALSE, name |-> "", loading |-> FALSE, error |-> "none",
   iconData |-> Null, cacheChecked |-> FALSE, cur |-> 0]

\* The useState initial values of a fresh instance rendered with `name`.
InitialState(name) ==
  [mounted |-> TRUE, name |-> name, loading |-> FALSE, error |-> "none",
   iconData |-> bundledIcon(name),
   cacheChecked |-> Truthy(bundledIcon(name)), cur |-> 0]

\* What the render function returns for the state st.
Render(st) ==
  IF ~st.cacheChecked /\ ~Truthy(st.iconData) THEN [view |-> "checking", icon |-> Null]
  ELSE IF st.loading THEN [view |-> "loading", icon |-> Null]
  ELSE IF st.error # "none" THEN [view |-> "error", icon |-> Null]
  ELSE IF ~Truthy(st.iconData) THEN [view |-> "null", icon |-> Null]
  ELSE [view |-> "icon", icon |-> st.iconData]

EffectNeverSkips(icon) == FALSE

\* if (bundledIcon) { onLoad?.(); return; }
EffectSkips(icon) == Truthy(icon)

\* The synchronous part of the effect body, up to its first await.
Effect(st, name) ==
  IF EffectSkips(bundledIcon(name))
    THEN [st |-> st, pc |-> "done", onLoad |-> 1, reads |-> 0, cleanup |-> FALSE]
    ELSE [st |-> [st EXCEPT !.error = "none"], pc |-> "cacheRead",
          onLoad |-> 0, reads |-> 1, cleanup |-> TRUE]

NewRes(c, name, e) ==
  [comp |-> c, name |-> name, pc |-> e.pc, cleanup |-> e.cleanup,
   cancelled |-> FALSE, cancelledAt |-> "none",
   reads |-> e.reads, fetches |-> 0, writes |-> 0,
   onLoad |-> e.onLoad, onError |-> 0, errArg |-> "none",
   nativeRead |-> "none", readHit |-> FALSE,
   fetchOutcome |-> "none", writeOutcome |-> "none", fetched |-> Null]

\* return () => { cancelled = true; };
Cleanup(rs, r) ==
  IF r \in DOMAIN rs /\ rs[r].cleanup /\ ~rs[r].cancelled
    THEN [rs EXCEPT ![r].cancelled = TRUE, ![r].cancelledAt = rs[r].pc]
    ELSE rs

\* catch (err) { if (!cancelled) { setLoading(false); setError; onError } }
Catch(st, cancelled, code) ==
  IF ~cancelled
    THEN [st |-> [st EXCEPT !.loading = FALSE, !.error = code],
          onLoad |-> 0, onError |-> 1, errArg |-> code, pc |-> "done"]
    ELSE [st |-> st, onLoad |-> 0, onError |-> 0, errArg |-> "none", pc |-> "done"]

\* The continuation after `await getCache().get(cacheKey)`, up to the call
\* of loadIcon.
AfterCacheRead(st, cancelled, got) ==
  IF got.threw THEN Catch(st, cancelled, got.code)
  ELSE
    LET s1 == IF ~cancelled THEN [st EXCEPT !.cacheChecked = TRUE] ELSE st IN
    IF Truthy(got.value) /\ ~cancelled
      THEN [st |-> [s1 EXCEPT !.loading = FALSE, !.iconData = got.value],
            onLoad |-> 1, onError |-> 0, errArg |-> "none", pc |-> "done"]
      ELSE [st |-> IF ~cancelled
                     THEN [s1 EXCEPT !.loading = TRUE, !.iconData = Null]
                     ELSE s1,
            onLoad |-> 0, onError |-> 0, errArg |-> "none", pc |-> "fetch"]

CatchDropsError(st, cancelled, code) ==
  [st |-> IF ~cancelled THEN [st EXCEPT !.loading = FALSE] ELSE st,
   onLoad |-> 0, onError |-> 0, errArg |-> "none", pc |-> "done"]

\* The continuation after `await loadIcon(name)` when it rejected.
AfterFetchFailed(st, cancelled, code) == Catch(st, cancelled, code)

AfterSetUnguarded(st, cancelled, fetched) ==
  [st |-> [st EXCEPT !.loading = FALSE, !.iconData = fetched],
   onLoad |-> 1, onError |-> 0, errArg |-> "none", pc |-> "done"]

\* The continuation after `await getCache().set(cacheKey, fetchedIconData)`
\* when it resolved.
AfterSet(st, cancelled, fetched) ==
  IF ~cancelled
    THEN [st |-> [st EXCEPT !.loading = FALSE, !.iconData = fetched],
          onLoad |-> 1, onError |-> 0, errArg |-> "none", pc |-> "done"]
    ELSE [st |-> st, onLoad |-> 0, onError |-> 0, errArg |-> "none", pc |-> "done"]

\* The bookkeeping every continuation shares.
Continue(r, k) ==
  [r EXCEPT !.pc = k.pc, !.onLoad = @ + k.onLoad, !.onError = @ + k.onError,
            !.errArg = IF k.onError > 0 THEN k.errArg ELSE @]

Mount(c, n) ==
  /\ ~comp[c].mounted
  /\ Len(res) < MaxRes
  /\ LET e == Effect(InitialState(n), n) IN
     /\ comp' = [comp EXCEPT ![c] = [e.st EXCEPT !.cur = Len(res) + 1]]
     /\ res' = Append(res, NewRes(c, n, e))
  /\ UNCHANGED <<store, fx, ld, tc, sc, bf, mc>>

\* A re-render whose deps [name, bundledIcon, onLoad, onError] changed: the
\* previous effect is cleaned up and the effect runs again.
Rerender(c, n) ==
  /\ comp[c].mounted
  /\ Len(res) < MaxRes
  /\ LET e == Effect([comp[c] EXCEPT !.name = n], n) IN
     /\ comp' = [comp EXCEPT ![c] = [e.st EXCEPT !.cur = Len(res) + 1]]
     /\ res' = Append(Cleanup(res, comp[c].cur), NewRes(c, n, e))
  /\ UNCHANGED <<store, fx, ld, tc, sc, bf, mc>>

ChangeName(c, n) == n # comp[c].name /\ Rerender(c, n)

ChangeCallbacks(c) == Rerender(c, comp[c].name)

Unmount(c) ==
  /\ comp[c].mounted
  /\ comp' = [comp EXCEPT ![c] = Unmounted]
  /\ res' = Cleanup(res, comp[c].cur)
  /\ UNCHANGED <<store, fx, ld, tc, sc, bf, mc>>

NativeReadKind(st, key, nativeOk) ==
  IF ~nativeOk THEN "fail"
  ELSE IF ~Truthy(st[key]) THEN "miss"
  ELSE IF st[key] = Corrupt THEN "corrupt" ELSE "hit"

CacheReadReturns(r, nativeOk) ==
  /\ res[r].pc = "cacheRead"
  /\ LET c == res[r].comp
         key == getCacheKey(res[r].name)
         got == TurboCacheGet(store, key, nativeOk)
         k == AfterCacheRead(comp[c], res[r].cancelled, got)
     IN /\ comp' = [comp EXCEPT ![c] = k.st]
        /\ res' = [res EXCEPT ![r] =
             [Continue(res[r], k) EXCEPT
                !.nativeRead = NativeReadKind(store, key, nativeOk),
                !.readHit = ~got.threw /\ Truthy(got.value),
                !.fetches = IF k.pc = "fetch" THEN @ + 1 ELSE @]]
  /\ UNCHANGED <<store, fx, ld, tc, sc, bf, mc>>

FetchSucceedsUnlessCancelled(r) ==
  /\ res[r].pc = "fetch"
  /\ res' = IF res[r].cancelled
              THEN [res EXCEPT ![r].pc = "done", ![r].fetchOutcome = "ok"]
              ELSE [res EXCEPT ![r].pc = "write", ![r].fetchOutcome = "ok",
                               ![r].fetched = NetIcon(res[r].name),
                               ![r].writes = @ + 1]
  /\ UNCHANGED <<comp, store, fx, ld, tc, sc, bf, mc>>

\* loadIcon resolves and the call of getCache().set is made.
FetchSucceeds(r) ==
  /\ res[r].pc = "fetch"
  /\ res' = [res EXCEPT ![r].pc = "write", ![r].fetchOutcome = "ok",
                        ![r].fetched = NetIcon(res[r].name),
                        ![r].writes = @ + 1]
  /\ UNCHANGED <<comp, store, fx, ld, tc, sc, bf, mc>>

FetchFails(r, code) ==
  /\ res[r].pc = "fetch"
  /\ LET c == res[r].comp
         k == AfterFetchFailed(comp[c], res[r].cancelled, code)
     IN /\ comp' = [comp EXCEPT ![c] = k.st]
        /\ res' = [res EXCEPT ![r] =
             [Continue(res[r], k) EXCEPT !.fetchOutcome = code]]
  /\ UNCHANGED <<store, fx, ld, tc, sc, bf, mc>>

CacheWriteReturns(r, nativeOk) ==
  /\ res[r].pc = "write"
  /\ LET c == res[r].comp
         key == getCacheKey(res[r].name)
         w == TurboCacheSet(store, key, res[r].fetched, nativeOk)
         k == IF w.threw
                THEN Catch(comp[c], res[r].cancelled, w.code)
                ELSE AfterSet(comp[c], res[r].cancelled, res[r].fetched)
     IN /\ store' = w.store
        /\ comp' = [comp EXCEPT ![c] = k.st]
        /\ res' = [res EXCEPT ![r] =
             [Continue(res[r], k) EXCEPT
                !.writeOutcome = IF w.threw THEN w.code ELSE "ok"]]
  /\ UNCHANGED <<fx, ld, tc, sc, bf, mc>>

\* The native store drops an entry: expiry, LRU eviction or a removal.
Evict(key) ==
  /\ Truthy(store[key])
  /\ store' = [store EXCEPT ![key] = Null]
  /\ UNCHANGED <<comp, res, fx, ld, tc, sc, bf, mc>>

\* The stored file is damaged on disk.
CorruptEntry(key) ==
  /\ Truthy(store[key]) /\ store[key] # Corrupt
  /\ store' = [store EXCEPT ![key] = Corrupt]
  /\ UNCHANGED <<comp, res, fx, ld, tc, sc, bf, mc>>

\* Nothing mounted, no resolution started, nothing stored.
NoComps == [c \in Comps |-> Unmounted]
EmptyStore == [k \in CacheKeys |-> Null]

Init ==
  /\ comp = NoComps
  /\ res = << >>
  /\ sc = Null
  /\ bf = Null
  /\ mc = Null
  /\ store = EmptyStore
  /\ fx = Null
  /\ ld = Null
  /\ tc = Null

NextIcon ==
  \/ \E c \in Comps, n \in Names : Mount(c, n)
  \/ \E c \in Comps, n \in Names : ChangeName(c, n)
  \/ \E c \in Comps : ChangeCallbacks(c)
  \/ \E c \in Comps : Unmount(c)
  \/ \E r \in DOMAIN res, ok \in BOOLEAN : CacheReadReturns(r, ok)
  \/ \E r \in DOMAIN res : FetchSucceeds(r)
  \/ \E r \in DOMAIN res, code \in LoadErrors : FetchFails(r, code)
  \/ \E r \in DOMAIN res, ok \in BOOLEAN : CacheWriteReturns(r, ok)
  \/ \E k \in CacheKeys : Evict(k)
  \/ \E k \in CacheKeys : CorruptEntry(k)

Spec == Init /\ [][NextIcon]_vars

(***************************************************************************)
(* fetchIconData: the redundant multi-host fetcher.  An identifier is a    *)
(* sequence of characters; fx is the state of one call of fetchIconData.   *)
(***************************************************************************)
\* Largest options.maxRetries a caller passes.
MaxRetriesOpt == 2

DefaultHosts == <<"api.iconify.design", "api.simplesvg.com", "api.unisvg.com">>
DefaultMaxRetries == 3
BackoffBase == 1000
BackoffCap == 5000

FetchNames ==
  { <<"m", ":", "h">>, <<"m">>, <<"a", ":", "b", ":", "c">>,
    <<":", "h">>, <<"m", ":">> }

\* An optional field of `options`: << >> when it is undefined, <<v>> when it
\* is given as v.
Undefined == << >>
Given(v) == <<v>>

HostsOptions ==
  {Undefined, Given(<< >>), Given(<<"hostA">>), Given(<<"hostA", "hostB">>)}
MaxRetriesOptions ==
  {Undefined} \cup {Given(n) : n \in 0 .. MaxRetriesOpt} \cup {Given(5)}
\* options.signal: the caller's AbortSignal, when one is passed.
SignalOptions == {Undefined, Given("signal")}

\* iconName.split(':')
RECURSIVE Split(_)
Split(s) ==
  IF s = << >> THEN << << >> >>
  ELSE LET rest == Split(Tail(s)) IN
       IF Head(s) = ":"
         THEN << << >> >> \o rest
         ELSE << <<Head(s)>> \o Head(rest) >> \o Tail(rest)

\* parseIconName: anything but exactly two parts is a PARSE_ERROR.
parseIconName(iconName) ==
  LET parts == Split(iconName) IN
  IF Len(parts) # 2
    THEN [threw |-> TRUE, code |-> "PARSE_ERROR", prefix |-> << >>, name |-> << >>]
    ELSE [threw |-> FALSE, code |-> "none", prefix |-> parts[1], name |-> parts[2]]

\* a || b on an optional number: 0 and undefined are both falsy.
OrDefault(opt, d) == IF opt = Undefined \/ opt[1] = 0 THEN d ELSE opt[1]

\* const config = { hosts: ..., maxRetries: ... }
Config(options) ==
  [hosts |-> IF options.hosts = Undefined THEN DefaultHosts ELSE options.hosts[1],
   maxRetries |-> OrDefault(options.maxRetries, DefaultMaxRetries)]

\* The calls of fetchIconData explored: every combination of the options
\* above that makes no more attempts than the default configuration does.
FetchOptions ==
  { o \in [hosts : HostsOptions, maxRetries : MaxRetriesOptions,
           signal : SignalOptions] :
      Len(Config(o).hosts) * Config(o).maxRetries
        <= Len(DefaultHosts) * DefaultMaxRetries }

\* fetch(url, { signal: signal || controller.signal }): the signal the
\* request listens to.
FetchSignal(options) ==
  IF options.signal = Undefined THEN "controller" ELSE "caller"

\* What one network attempt can end in: "timeout" is the abort of the
\* timeout controller, "abort" the abort of the caller's signal.
Outcomes ==
  {"ok", "http404", "http500", "neterr", "badjson", "timeout", "abort"}

\* The outcomes the request can have: an abort of the signal it listens to
\* rejects it, an abort of the other one does not reach it.
CanEndIn(f, outcome) ==
  /\ outcome = "timeout" => FetchSignal(f.options) = "controller"
  /\ outcome = "abort" <=> (FetchSignal(f.options) = "caller" /\ f.aborted)

\* fetchFromHost / fetchWithTimeout: the error code an attempt rejects with.
AttemptError(outcome) ==
  CASE outcome = "http404" -> "NOT_FOUND"
    [] outcome = "http500" -> "NETWORK_ERROR"
    [] outcome = "neterr"  -> "NETWORK_ERROR"
    [] outcome = "badjson" -> "INVALID_RESPONSE"
    [] outcome = "timeout" -> "TIMEOUT"
    [] outcome = "abort"   -> "TIMEOUT"

\* The body the host answers with.
Response(host, prefix, name) == [host |-> host, prefix |-> prefix, icons |-> name]

NoRetryOnInvalidResponse(code) ==
  code \in {"NOT_FOUND", "PARSE_ERROR", "INVALID_RESPONSE"}

NoRetryOnParseErrorOnly(code) == code \in {"PARSE_ERROR"}

\* if (error.code === 'NOT_FOUND' || error.code === 'PARSE_ERROR') throw error;
NoRetryOn(code) == code \in {"NOT_FOUND", "PARSE_ERROR"}

Min(a, b) == IF a < b THEN a ELSE b

RetryAllowedOnce(retries, maxRetries) == retries < Min(1, maxRetries)

RetryAllowedInclusive(retries, maxRetries) == retries <= maxRetries

\* while (retries < config.maxRetries)
RetryAllowed(retries, maxRetries) == retries < maxRetries

RECURSIVE Pow2(_)
Pow2(n) == IF n <= 0 THEN 1 ELSE 2 * Pow2(n - 1)

BackoffDelayUncapped(retries) == BackoffBase * Pow2(retries - 1)

\* const delay = Math.min(1000 * Math.pow(2, retries - 1), 5000);
BackoffDelay(retries) == Min(BackoffBase * Pow2(retries - 1), BackoffCap)

CollectLast(errors, code) == <<code>>

\* errors.push(error)
Collect(errors, code) == Append(errors, code)

\* A backoff wait: the host, the number of failed attempts on it so far, and
\* the delay given to setTimeout.
Wait(host, retries) ==
  [host |-> host, after |-> retries, delay |-> BackoffDelay(retries)]

NextHostSkips(i) == i + 2

\* for (const host of config.hosts): the host after the i-th.
NextHost(i) == i + 1

\* A call of fetch(url) that has not returned yet.
Call(host) == [host |-> host, result |-> "pending"]

\* The state of fetchIconData when the loop reaches host i (or runs off the
\* end of the host list): the first attempt on that host, or the aggregated
\* NETWORK_ERROR carrying every error collected.
EnterHost(f, i) ==
  IF i <= Len(f.hosts) /\ RetryAllowed(0, f.maxRetries)
    THEN [f EXCEPT !.pc = "attempt", !.hostIdx = i, !.retries = 0,
                   !.calls = Append(@, Call(f.hosts[i]))]
    ELSE IF i <= Len(f.hosts)
      THEN [f EXCEPT !.pc = "rejected", !.error = "NETWORK_ERROR", !.details = f.errors]
      ELSE [f EXCEPT !.pc = "rejected", !.hostIdx = i,
                     !.error = "NETWORK_ERROR", !.details = f.errors]

InitFetch ==
  /\ comp = NoComps
  /\ res = << >>
  /\ sc = Null
  /\ bf = Null
  /\ mc = Null
  /\ store = EmptyStore
  /\ ld = Null
  /\ tc = Null
  /\ \E iconName \in FetchNames, options \in FetchOptions :
       fx = [pc |-> "idle", iconName |-> iconName,
             options |-> options, aborted |-> FALSE, overdue |-> FALSE,
             prefix |-> << >>, name |-> << >>,
             hosts |-> << >>, maxRetries |-> 0,
             hostIdx |-> 0, retries |-> 0,
             errors |-> << >>, calls |-> << >>, waits |-> << >>,
             result |-> Null, error |-> "none", details |-> << >>]

\* fetchIconData up to its first await.
FetchStart ==
  /\ fx.pc = "idle"
  /\ LET p == parseIconName(fx.iconName)
         cfg == Config(fx.options)
     IN fx' = IF p.threw
                THEN [fx EXCEPT !.pc = "rejected", !.error = p.code]
                ELSE EnterHost([fx EXCEPT !.prefix = p.prefix, !.name = p.name,
                                          !.hosts = cfg.hosts,
                                          !.maxRetries = cfg.maxRetries], 1)
  /\ UNCHANGED <<comp, res, store, ld, tc, sc, bf, mc>>

\* The awaited fetchFromHost settles, and the loop runs to its next await.
AttemptReturns(outcome) ==
  /\ fx.pc = "attempt"
  /\ CanEndIn(fx, outcome)
  /\ LET n == Len(fx.calls)
         host == fx.hosts[fx.hostIdx]
     IN IF outcome = "ok"
          THEN fx' = [fx EXCEPT !.pc = "resolved", !.overdue = FALSE,
                                !.calls[n].result = "ok",
                                !.result = Response(host, fx.prefix, fx.name)]
          ELSE LET code == AttemptError(outcome)
                   f1 == [fx EXCEPT !.calls[n].result = code, !.overdue = FALSE,
                                    !.errors = Collect(@, code)]
                   retries == fx.retries + 1
               IN fx' = IF NoRetryOn(code)
                          THEN [f1 EXCEPT !.pc = "rejected", !.error = code]
                          ELSE IF RetryAllowed(retries, fx.maxRetries)
                            THEN [f1 EXCEPT !.pc = "backoff", !.retries = retries,
                                            !.waits = Append(@, Wait(host, retries))]
                            ELSE EnterHost([f1 EXCEPT !.retries = retries],
                                           NextHost(fx.hostIdx))
  /\ UNCHANGED <<comp, res, store, ld, tc, sc, bf, mc>>

\* The backoff timer fires and the next attempt on the same host starts.
BackoffElapses ==
  /\ fx.pc = "backoff"
  /\ fx' = [fx EXCEPT !.pc = "attempt",
                      !.calls = Append(@, Call(fx.hosts[fx.hostIdx]))]
  /\ UNCHANGED <<comp, res, store, ld, tc, sc, bf, mc>>

\* The timeout of the attempt in flight elapses and controller.abort() runs
\* while the request listens to the caller's signal: the request goes on.
TimeoutUnheard ==
  /\ fx.pc = "attempt"
  /\ FetchSignal(fx.options) = "caller"
  /\ ~fx.overdue
  /\ fx' = [fx EXCEPT !.overdue = TRUE]
  /\ UNCHANGED <<comp, res, store, ld, tc, sc, bf, mc>>

\* The caller aborts the signal it passed in options.signal.
CallerAborts ==
  /\ fx.options.signal # Undefined
  /\ ~fx.aborted
  /\ fx.pc \in {"idle", "attempt", "backoff"}
  /\ fx' = [fx EXCEPT !.aborted = TRUE]
  /\ UNCHANGED <<comp, res, store, ld, tc, sc, bf, mc>>

NextFetch ==
  \/ FetchStart
  \/ \E outcome \in Outcomes : AttemptReturns(outcome)
  \/ BackoffElapses
  \/ TimeoutUnheard
  \/ CallerAborts

SpecFetch == InitFetch /\ [][NextFetch]_vars

(***************************************************************************)
(* loadIcon: fetchIconData, then extractIconFromResponse and parseIconData *)
(* on the body the host answered with.  ld is the state of one call.       *)
(***************************************************************************)
\* JSON values, with the type typeof reports.
Undef == [t |-> "undefined"]
Num(n) == [t |-> "number", n |-> n]
Str(s) == [t |-> "string", s |-> s]
Bool(b) == [t |-> "boolean", b |-> b]

typeof(v) == v.t

\* !v
Falsy(v) == v \in {Undef, Str(""), Num(0), Bool(FALSE)}

\* a || b
OrElse(a, b) == IF Falsy(a) THEN b ELSE a

\* a ?? b
Coalesce(a, b) == IF a = Undef THEN b ELSE a

\* The entries of `icons` a host may answer with.
RawIcons ==
  [body : {Undef, Str(""), Str("B"), Num(5)},
   width : {Undef, Num(0), Num(-1), Num(24), Str("24")},
   height : {Undef, Num(0), Num(24)},
   rotate : {Undef, Num(1)},
   hFlip : {Undef, Bool(TRUE)}]

PlainIcon ==
  [body |-> Str("F"), width |-> Num(24), height |-> Num(24),
   rotate |-> Undef, hFlip |-> Undef]

\* The entries of `aliases`: a plain string, or an object naming its parent
\* and carrying its own transformations.
AliasValues ==
  {Str(<<"b">>)}
    \cup [t : {"object"}, parent : {<<"b">>, <<"x">>},
          rotate : {Undef, Num(1)}, hFlip : {Undef, Bool(TRUE)}]

\* The bodies explored: an alias "f", icons "b" and possibly "f", and the
\* collection's defaults.
Responses ==
  [aliases : {Undefined} \cup {Given(<<"f">> :> a) : a \in AliasValues},
   icons : {Undefined}
             \cup {Given(<<"b">> :> r) : r \in RawIcons}
             \cup {Given((<<"f">> :> PlainIcon) @@ (<<"b">> :> r)) : r \in RawIcons},
   width : {Undef, Num(16)},
   height : {Undef, Num(16)},
   rotate : {Undef, Num(2)},
   hFlip : {Undef}]

LoadNames == { <<"p", ":", "f">>, <<"p", ":", "b">>, <<"p">> }

Throw(code) == [threw |-> TRUE, code |-> code, icon |-> Null]
Return(icon) == [threw |-> FALSE, code |-> "none", icon |-> icon]

PositiveNumberLoose(v) == typeof(v) = "number"

\* typeof data.width !== 'number' || data.width <= 0, negated
PositiveNumber(v) == typeof(v) = "number" /\ v.n > 0

\* typeof data.body !== 'string' || !data.body, negated
NonEmptyString(v) == typeof(v) = "string" /\ ~Falsy(v)

parseIconData(data, iconName) ==
  IF ~NonEmptyString(data.body) THEN Throw("PARSE_ERROR")
  ELSE IF ~PositiveNumber(data.width) THEN Throw("PARSE_ERROR")
  ELSE IF ~PositiveNumber(data.height) THEN Throw("PARSE_ERROR")
  ELSE Return([name |-> iconName, body |-> data.body,
               width |-> data.width, height |-> data.height,
               rotate |-> IF typeof(data.rotate) = "number"
                            THEN data.rotate ELSE Undef,
               hFlip |-> IF typeof(data.hFlip) = "boolean"
                           THEN data.hFlip ELSE Undef])

\* let resolvedName = name; if (response.aliases && response.aliases[name]) ...
ResolvedName(response, name) ==
  IF response.aliases # Undefined /\ name \in DOMAIN response.aliases[1]
    THEN LET alias == response.aliases[1][name] IN
         IF typeof(alias) = "object" /\ alias.parent # << >>
           THEN alias.parent
           ELSE name
    ELSE name

\* const iconData = { name: iconName, body: rawIcon.body || '', ... }
MergeDefaults(rawIcon, response, iconName) ==
  [name |-> iconName,
   body |-> OrElse(rawIcon.body, Str("")),
   width |-> Coalesce(Coalesce(rawIcon.width, response.width), Num(0)),
   height |-> Coalesce(Coalesce(rawIcon.height, response.height), Num(0)),
   rotate |-> Coalesce(rawIcon.rotate, response.rotate),
   hFlip |-> Coalesce(rawIcon.hFlip, response.hFlip)]

extractIconFromResponse(response, iconName) ==
  LET parts == Split(iconName) IN
  IF Len(parts) # 2 THEN Throw("PARSE_ERROR")
  ELSE LET resolvedName == ResolvedName(response, parts[2]) IN
       IF response.icons = Undefined \/ resolvedName \notin DOMAIN response.icons[1]
         THEN Throw("NOT_FOUND")
         ELSE parseIconData(
                MergeDefaults(response.icons[1][resolvedName], response, iconName),
                iconName)

\* What fetchIconData may reject with.
FetchRejections == {"PARSE_ERROR", "NOT_FOUND", "NETWORK_ERROR"}

InitLoad ==
  /\ comp = NoComps
  /\ res = << >>
  /\ sc = Null
  /\ bf = Null
  /\ mc = Null
  /\ store = EmptyStore
  /\ fx = Null
  /\ tc = Null
  /\ \E iconName \in LoadNames, response \in Responses :
       ld = [pc |-> "idle", iconName |-> iconName, response |-> response,
             fetched |-> FALSE, result |-> Null, error |-> "none"]

\* fetchIconData resolved with the response: the rest of loadIcon.
LoadIconFetched ==
  /\ ld.pc = "idle"
  /\ ~parseIconName(ld.iconName).threw
  /\ LET r == extractIconFromResponse(ld.response, ld.iconName) IN
     ld' = IF r.threw
             THEN [ld EXCEPT !.pc = "rejected", !.fetched = TRUE, !.error = r.code]
             ELSE [ld EXCEPT !.pc = "resolved", !.fetched = TRUE, !.result = r.icon]
  /\ UNCHANGED <<comp, res, store, fx, tc, sc, bf, mc>>

\* fetchIconData rejected: loadIcon rethrows the IconifyAPIError.
LoadIconFetchRejects(code) ==
  /\ ld.pc = "idle"
  /\ (code = "PARSE_ERROR") <=> parseIconName(ld.iconName).threw
  /\ ld' = [ld EXCEPT !.pc = "rejected", !.error = code]
  /\ UNCHANGED <<comp, res, store, fx, tc, sc, bf, mc>>

NextLoad ==
  \/ LoadIconFetched
  \/ \E code \in FetchRejections : LoadIconFetchRejects(code)

SpecLoad == InitLoad /\ [][NextLoad]_vars

(***************************************************************************)
(* The persistent cache with TTL: TurboCache over NativeDiskCache over the *)
(* native module of a platform.  tc holds the platform, the clock in       *)
(* milliseconds, the native store (storage location -> entry), the last    *)
(* successful set of each key and the return of the get just made.         *)
(***************************************************************************)
\* The latest clock value explored, and the largest ttl passed to set.
MaxNow == 3
MaxTtl == 2

Platforms == {"android", "ios"}
TcKeys == { <<"i", ":", "a">>, <<"i", ":", "b">> }
TcValues == {NetIcon(n) : n \in Names}
TtlOptions == {Undefined} \cup {Given(t) : t \in 0 .. MaxTtl}

\* The characters of [a-zA-Z0-9-_.] that occur in keys.
SafeChars == {"a", "b", "i", "-", "_", "."}

\* key.replace(Regex("[^a-zA-Z0-9-_.]"), "_")
sanitizeKey(key) ==
  [i \in DOMAIN key |-> IF key[i] \in SafeChars THEN key[i] ELSE "_"]

\* [kCacheKeyPrefix stringByAppendingString:key]
createCacheKey(key) == <<"turbo-cache:">> \o key

\* Where the native module of a platform keeps the entry of a key.
Location(platform, key) ==
  IF platform = "android" THEN sanitizeKey(key) ELSE createCacheKey(key)

Locations(platform) == {Location(platform, k) : k \in TcKeys}

ExpiresAtIgnoresTtl(now, ttl) == Undefined

\* setValue: an expiry time only for a ttl that is given and positive.
ExpiresAt(now, ttl) ==
  IF ttl # Undefined /\ ttl[1] > 0 THEN Given(now + ttl[1]) ELSE Undefined

\* CacheData.isExpired / now > [expiresAt doubleValue]
isExpired(entry, now) ==
  entry.expiresAt # Undefined /\ now > entry.expiresAt[1]

\* The native setValue: the store after it.
setValue(platform, files, key, value, ttl, now) ==
  [files EXCEPT ![Location(platform, key)] =
     [value |-> value, expiresAt |-> ExpiresAt(now, ttl)]]

\* The native getValue: what it resolves with and the store after it.  The
\* Android module deletes an expired file; the iOS module leaves the entry.
getValue(platform, files, key, now) ==
  LET loc == Location(platform, key)
      entry == files[loc]
  IN IF entry = Null THEN [value |-> Null, files |-> files]
     ELSE IF isExpired(entry, now)
       THEN [value |-> Null,
             files |-> IF platform = "android"
                         THEN [files EXCEPT ![loc] = Null] ELSE files]
       ELSE [value |-> entry.value, files |-> files]

InitCache ==
  /\ comp = NoComps
  /\ res = << >>
  /\ sc = Null
  /\ bf = Null
  /\ mc = Null
  /\ store = EmptyStore
  /\ fx = Null
  /\ ld = Null
  /\ \E platform \in Platforms :
       tc = [platform |-> platform, now |-> 0,
             files |-> [l \in Locations(platform) |-> Null],
             written |-> [k \in TcKeys |-> Null],
             got |-> Null, put |-> Null]

\* TurboCache.set(key, data, ttl)
CacheSet(key, data, ttl, nativeOk) ==
  /\ LET r == TurboCacheSet([k \in {key} |-> Null], key, data, nativeOk)
         put == [circular |-> data = Circular, failed |-> ~nativeOk,
                 error |-> r.code]
     IN
     tc' = IF r.threw
             THEN [tc EXCEPT !.got = Null, !.put = put]
             ELSE [tc EXCEPT
                     !.files = setValue(tc.platform, tc.files, key,
                                        r.store[key], ttl, tc.now),
                     !.written[key] = [data |-> data, at |-> tc.now, ttl |-> ttl],
                     !.got = Null, !.put = put]
  /\ UNCHANGED <<comp, res, store, fx, ld, sc, bf, mc>>

\* TurboCache.get(key)
CacheGet(key, nativeOk) ==
  /\ LET n == getValue(tc.platform, tc.files, key, tc.now)
         r == TurboCacheGet([k \in {key} |-> n.value], key, nativeOk)
     IN tc' = [tc EXCEPT
                 !.files = IF nativeOk THEN n.files ELSE @,
                 !.got = [key |-> key, failed |-> ~nativeOk, value |-> r.value,
                          error |-> r.code],
                 !.put = Null]
  /\ UNCHANGED <<comp, res, store, fx, ld, sc, bf, mc>>

\* TurboCache.remove(key)
CacheRemove(key) ==
  /\ tc' = [tc EXCEPT !.files[Location(tc.platform, key)] = Null,
                      !.written[key] = Null,
                      !.got = Null, !.put = Null]
  /\ UNCHANGED <<comp, res, store, fx, ld, sc, bf, mc>>

\* The stored string of a key is damaged on disk: it is no longer JSON.
CorruptValue(key) ==
  /\ tc.files[Location(tc.platform, key)] # Null
  /\ tc.files[Location(tc.platform, key)].value # Corrupt
  /\ tc' = [tc EXCEPT !.files[Location(tc.platform, key)].value = Corrupt,
                      !.written[key] = Null,
                      !.got = Null, !.put = Null]
  /\ UNCHANGED <<comp, res, store, fx, ld, sc, bf, mc>>

\* A millisecond passes.
Tick ==
  /\ tc.now < MaxNow
  /\ tc' = [tc EXCEPT !.now = @ + 1, !.got = Null, !.put = Null]
  /\ UNCHANGED <<comp, res, store, fx, ld, sc, bf, mc>>

NextCache ==
  \/ \E key \in TcKeys, data \in TcValues \cup {Circular},
          ttl \in TtlOptions, ok \in BOOLEAN :
       CacheSet(key, data, ttl, ok)
  \/ \E key \in TcKeys, ok \in BOOLEAN : CacheGet(key, ok)
  \/ \E key \in TcKeys : CacheRemove(key)
  \/ \E key \in TcKeys : CorruptValue(key)
  \/ Tick

SpecCache == InitCache /\ [][NextCache]_vars

(***************************************************************************)
(* The native store as the cache shares it.  On iOS the entries live in    *)
(* the shared SDImageCache next to the application's images; on Android    *)
(* they are files of the directory iconify_cache inside Glide's disk cache *)
(* directory.  tc is as above, over keys that differ only in a character   *)
(* sanitizeKey rewrites.                                                   *)
(***************************************************************************)
ShKeys == { <<"i", ":", "a">>, <<"i", "_", "a">> }

\* Where the application's image cache keeps an image of its own.
ForeignLocations == { <<"https://cdn.app/logo.png">> }

Image == [value |-> "image", expiresAt |-> Undefined]

\* The locations the module's clear reaches: cacheDir.listFiles() on
\* Android, the whole disk store of the shared SDImageCache on iOS.
ClearReaches(platform, files) ==
  IF platform = "android"
    THEN {Location(platform, k) : k \in ShKeys}
    ELSE DOMAIN files

\* The native clear: the store after it.
clear(platform, files) ==
  [l \in DOMAIN files |->
     IF l \in ClearReaches(platform, files) THEN Null ELSE files[l]]

InitStore ==
  /\ comp = NoComps
  /\ res = << >>
  /\ sc = Null
  /\ bf = Null
  /\ mc = Null
  /\ store = EmptyStore
  /\ fx = Null
  /\ ld = Null
  /\ \E platform \in Platforms :
       tc = [platform |-> platform, now |-> 0,
             files |-> [l \in {Location(platform, k) : k \in ShKeys}
                               \cup ForeignLocations |-> Null],
             written |-> [k \in ShKeys |-> Null],
             got |-> Null, put |-> Null]

\* TurboCache.clear()
CacheClear ==
  /\ tc' = [tc EXCEPT !.files = clear(tc.platform, tc.files),
                      !.written = [k \in ShKeys |-> Null],
                      !.got = Null, !.put = Null]
  /\ UNCHANGED <<comp, res, store, fx, ld, sc, bf, mc>>

\* The application's image cache stores an image.
ImageCached(l) ==
  /\ tc.files[l] = Null
  /\ tc' = [tc EXCEPT !.files[l] = Image, !.got = Null, !.put = Null]
  /\ UNCHANGED <<comp, res, store, fx, ld, sc, bf, mc>>

NextStore ==
  \/ \E key \in ShKeys, data \in TcValues, ok \in BOOLEAN :
       CacheSet(key, data, Undefined, ok)
  \/ \E key \in ShKeys, ok \in BOOLEAN : CacheGet(key, ok)
  \/ \E key \in ShKeys : CacheRemove(key)
  \/ CacheClear
  \/ \E l \in ForeignLocations : ImageCached(l)

SpecStore == InitStore /\ [][NextStore]_vars

(***************************************************************************)
(* The component's use of the persistent cache over a day: getCache()      *)
(* creates the cache with a defaultTTL, loadIconData saves fetched icons   *)
(* and reads them back on later resolutions.  The clock moves by six hours. *)
(***************************************************************************)
\* The quarters of a day the clock runs for.
MaxQuarterDays == 5

\* defaultTTL: 24 * 60 * 60 * 1000
DefaultTTL == 86400000

\* createCache({ maxSize: 1000, defaultTTL: ... })
GetCacheOptions == [maxSize |-> 1000, defaultTTL |-> DefaultTTL]

\* The ttl TurboCache hands to the native layer: the constructor keeps
\* nothing of its options, and set passes its own ttl argument on.
NativeTtl(options, ttl) == ttl

\* await getCache().set(cacheKey, fetchedIconData): no ttl argument.
ComponentTtl == Undefined

InitIconCache ==
  /\ comp = NoComps
  /\ res = << >>
  /\ sc = Null
  /\ bf = Null
  /\ mc = Null
  /\ store = EmptyStore
  /\ fx = Null
  /\ ld = Null
  /\ \E platform \in Platforms :
       tc = [platform |-> platform, now |-> 0,
             files |-> [l \in Locations(platform) |-> Null],
             written |-> [k \in TcKeys |-> Null],
             got |-> Null, put |-> Null]

\* loadIconData saves the icon it fetched.
IconSaved(key, data, nativeOk) ==
  CacheSet(key, data, NativeTtl(GetCacheOptions, ComponentTtl), nativeOk)

\* loadIconData reads the cache at the start of a resolution.
IconRead(key, nativeOk) == CacheGet(key, nativeOk)

\* Six hours pass.
QuarterDayPasses ==
  /\ tc.now < MaxQuarterDays * (DefaultTTL \div 4)
  /\ tc' = [tc EXCEPT !.now = @ + DefaultTTL \div 4, !.got = Null, !.put = Null]
  /\ UNCHANGED <<comp, res, store, fx, ld, sc, bf, mc>>

NextIconCache ==
  \/ \E key \in TcKeys, data \in TcValues, ok \in BOOLEAN : IconSaved(key, data, ok)
  \/ \E key \in TcKeys, ok \in BOOLEAN : IconRead(key, ok)
  \/ QuarterDayPasses

SpecIconCache == InitIconCache /\ [][NextIconCache]_vars

(***************************************************************************)
(* The usage scanner (scripts/scan-icons.js).  A source file is the set of *)
(* quoted string literals in its text, whether its text references the     *)
(* IconifyIcon component, and whether it can be read.  sc holds the source *)
(* tree and the results of the scans made of it.                           *)
(***************************************************************************)
\* Scans made of one tree.
MaxScans == 2

\* String.prototype.toLowerCase on the characters that occur.
toLowerCaseChar(c) ==
  CASE c = "A" -> "a"
    [] c = "C" -> "c"
    [] c = "I" -> "i"
    [] OTHER -> c

toLowerCase(str) == [i \in DOMAIN str |-> toLowerCaseChar(str[i])]

\* The characters of [a-z0-9] that occur.
Alnum == {"a", "b", "c", "f", "i", "z", "0", "1"}

\* [a-z0-9-] under the i flag.
InClass(c) == toLowerCaseChar(c) \in Alnum \cup {"-"}

\* The entries of VALID_ICONIFY_PREFIXES that occur.
VALID_ICONIFY_PREFIXES == { <<"i", "c">>, <<"f", "a">> }

\* The literals found in source text.
IcA == <<"i", "c", ":", "a">>
IcAUpper == <<"I", "C", ":", "A">>
FaB1 == <<"f", "a", ":", "b", "-", "1">>
IcDashA == <<"i", "c", ":", "-", "a">>
IcADash == <<"i", "c", ":", "a", "-">>
ZzA == <<"z", "z", ":", "a">>
IcOpen == <<"i", "c", ":">>

Contents ==
  { {}, {IcA}, {IcAUpper}, {FaB1, IcA}, {IcDashA, IcADash}, {ZzA, IcOpen} }

RootFiles == {"App.tsx", "index.tsx"}
SrcFiles == {"src/Home.tsx"}
SourceFiles == RootFiles \cup SrcFiles

Trees ==
  [SourceFiles -> [readable : BOOLEAN, refs : BOOLEAN, literals : Contents]]

\* The elements of an array.
Range(seq) == {seq[i] : i \in DOMAIN seq}

\* The orders readdirSync may list a set of files in.
Orders(S) ==
  {o \in [1 .. Cardinality(S) -> S] : \A i, j \in DOMAIN o : i # j => o[i] # o[j]}

isValidIconifyPrefix(prefix) == toLowerCase(prefix) \in VALID_ICONIFY_PREFIXES

NameShapeLoose(name) == \A i \in DOMAIN name : name[i] \in Alnum \cup {"-"}

\* /^[a-z0-9][a-z0-9-]*[a-z0-9]$|^[a-z0-9]$/.test(name)
NameShape(name) ==
  /\ name # << >>
  /\ name[1] \in Alnum
  /\ name[Len(name)] \in Alnum
  /\ \A i \in DOMAIN name : name[i] \in Alnum \cup {"-"}

isValidIconifyIcon(iconName) ==
  LET parts == Split(iconName) IN
  IF Len(parts) # 2 THEN FALSE
  ELSE IF parts[1] = << >> \/ parts[2] = << >> THEN FALSE
  ELSE IF ~isValidIconifyPrefix(parts[1]) THEN FALSE
  ELSE NameShape(parts[2])

\* /["']([a-z0-9-]+:[a-z0-9-]+)["']/gi on one quoted literal.
PatternMatches(literal) ==
  LET parts == Split(literal) IN
  /\ Len(parts) = 2
  /\ parts[1] # << >>
  /\ parts[2] # << >>
  /\ \A i \in DOMAIN literal : literal[i] = ":" \/ InClass(literal[i])

\* extractIconNames: the text's reference to the component plays no part.
extractIconNames(content) ==
  { toLowerCase(l) : l \in
      { m \in content.literals :
          PatternMatches(m) /\ isValidIconifyIcon(toLowerCase(m)) } }

\* The UTF-16 code unit of a character, which Array.prototype.sort orders by.
CodeUnit(c) ==
  CASE c = "-" -> 45 [] c = "0" -> 48 [] c = "1" -> 49 [] c = ":" -> 58
    [] c = "a" -> 97 [] c = "b" -> 98 [] c = "c" -> 99 [] c = "f" -> 102
    [] c = "i" -> 105 [] c = "z" -> 122

RECURSIVE Before(_, _)
Before(x, y) ==
  IF x = << >> THEN y # << >>
  ELSE IF y = << >> THEN FALSE
  ELSE IF Head(x) # Head(y) THEN CodeUnit(Head(x)) < CodeUnit(Head(y))
  ELSE Before(Tail(x), Tail(y))

\* Array.from(set).sort()
RECURSIVE SortSet(_)
SortSet(S) ==
  IF S = {} THEN << >>
  ELSE LET least == CHOOSE x \in S : \A y \in S \ {x} : Before(x, y)
       IN <<least>> \o SortSet(S \ {least})

\* The files of the listing scanFile gets through before readFileSync throws.
RECURSIVE ReadUntilError(_, _)
ReadUntilError(tree, order) ==
  IF order = << >> THEN [files |-> {}, threw |-> FALSE]
  ELSE IF ~tree[Head(order)].readable THEN [files |-> {}, threw |-> TRUE]
  ELSE LET rest == ReadUntilError(tree, Tail(order)) IN
       [files |-> {Head(order)} \cup rest.files, threw |-> rest.threw]

\* scanProject: the root listing runs inside try/catch, the scan directories
\* do not.
scanProject(tree, rootOrder, srcOrder) ==
  LET root == ReadUntilError(tree, rootOrder)
      src == ReadUntilError(tree, srcOrder)
      allIcons == UNION {extractIconNames(tree[f]) : f \in root.files \cup src.files}
  IN IF src.threw
       THEN [threw |-> TRUE, icons |-> << >>]
       ELSE [threw |-> FALSE, icons |-> SortSet(allIcons)]

InitScan ==
  /\ comp = NoComps
  /\ res = << >>
  /\ store = EmptyStore
  /\ fx = Null
  /\ ld = Null
  /\ tc = Null
  /\ bf = Null
  /\ mc = Null
  /\ \E tree \in Trees : sc = [tree |-> tree, scans |-> << >>]

\* One run of the scanner over the tree.
ScanProject ==
  /\ Len(sc.scans) < MaxScans
  /\ \E rootOrder \in Orders(RootFiles), srcOrder \in Orders(SrcFiles) :
       sc' = [sc EXCEPT !.scans =
                Append(@, [rootOrder |-> rootOrder,
                           result |-> scanProject(sc.tree, rootOrder, srcOrder)])]
  /\ UNCHANGED <<comp, res, store, fx, ld, tc, bf, mc>>

NextScan == ScanProject

SpecScan == InitScan /\ [][NextScan]_vars

(***************************************************************************)
(* The build-time fetch (scripts/fetch-icons.js).  bf holds the cache      *)
(* directory on disk, which outlives a run, and the run of fetchIcons in   *)
(* progress or last returned.  An icon's data is named by the identifier   *)
(* whose fetch produced it.                                                *)
(***************************************************************************)
\* Calls of fetchIcons, and identifiers handed to one call.
MaxRuns == 2
MaxBatch == 2

API_HOSTS == <<"api.iconify.design", "api.simplesvg.com", "api.unisvg.com">>

\* What a host does with a request: it returns the icon, it has no such
\* icon or cannot be reached, or it returns text that is not JSON.
HostAnswers == {"icon", "unavailable", "garbage"}

FaDashB1 == <<"f", "a", "-", "b", ":", "1">>

BfNames == {IcA, FaB1, FaDashB1, IcOpen}

\* Lists of distinct identifiers, as the scanner produces them.
Batches ==
  UNION { {b \in [1 .. n -> BfNames] : \A i, j \in 1 .. n : i # j => b[i] # b[j]}
          : n \in 1 .. MaxBatch }

\* iconName.replace(':', '-'): the first colon only.
RECURSIVE ReplaceFirstColon(_)
ReplaceFirstColon(s) ==
  IF s = << >> THEN << >>
  ELSE IF Head(s) = ":" THEN <<"-">> \o Tail(s)
  ELSE <<Head(s)>> \o ReplaceFirstColon(Tail(s))

getCacheFilePath(iconName) == ReplaceFirstColon(iconName)

\* getFromCache: .found is false where the code returns null.
getFromCache(files, iconName) ==
  IF getCacheFilePath(iconName) \in DOMAIN files
    THEN [found |-> TRUE, data |-> files[getCacheFilePath(iconName)]]
    ELSE [found |-> FALSE, data |-> [icon |-> << >>]]

saveToCache(files, iconName, iconData) ==
  (getCacheFilePath(iconName) :> iconData) @@ files

\* fetchFromAPI: TRUE when the promise resolves.  answers[h] is what host h
\* does with the request.
RECURSIVE fetchFromAPI(_, _, _)
fetchFromAPI(iconName, answers, hostIndex) ==
  LET parts == Split(iconName) IN
  IF Len(parts) < 2 \/ parts[1] = << >> \/ parts[2] = << >> THEN FALSE
  ELSE IF answers[hostIndex] = "icon" THEN TRUE
  ELSE IF answers[hostIndex] = "garbage" THEN FALSE
  ELSE IF hostIndex < Len(API_HOSTS)
    THEN fetchFromAPI(iconName, answers, hostIndex + 1)
    ELSE FALSE

\* The cache pass of fetchIcons.
CachedResults(files, iconNames, useCache) ==
  LET hits == IF useCache
                THEN {n \in Range(iconNames) : getFromCache(files, n).found}
                ELSE {}
  IN [n \in hits |-> getFromCache(files, n).data]

ToFetch(files, iconNames, useCache) ==
  IF useCache
    THEN SelectSeq(iconNames, LAMBDA n : ~getFromCache(files, n).found)
    ELSE iconNames

\* The catch block of the fetch loop.
AfterFailure(run, iconName) ==
  [run EXCEPT !.failed = @ \cup {iconName}]

\* The rest of the try block once fetchFromAPI has resolved.
AfterSuccess(run, iconName) ==
  [run EXCEPT !.results = (iconName :> [icon |-> iconName]) @@ @,
              !.manifest = @ \cup {iconName},
              !.fetched = @ \cup {iconName}]

InitBuildFetch ==
  /\ comp = NoComps
  /\ res = << >>
  /\ store = EmptyStore
  /\ fx = Null
  /\ ld = Null
  /\ tc = Null
  /\ sc = Null
  /\ mc = Null
  /\ bf = [files |-> << >>, manifest |-> {}, runs |-> 0,
           run |-> [active |-> FALSE, iconNames |-> << >>, useCache |-> TRUE,
                    results |-> << >>, toFetch |-> << >>, pos |-> 1,
                    manifest |-> {}, loaded |-> {},
                    fetched |-> {}, failed |-> {}, done |-> TRUE]]

\* fetchIcons up to its first await: the cache pass, and either the return
\* when nothing is left to fetch or the first call of fetchFromAPI.
FetchIconsStart(iconNames, useCache) ==
  /\ bf.run.done
  /\ bf.runs < MaxRuns
  /\ LET toFetch == ToFetch(bf.files, iconNames, useCache) IN
     bf' = [bf EXCEPT
       !.runs = @ + 1,
       !.run = [active |-> TRUE, iconNames |-> iconNames, useCache |-> useCache,
                results |-> CachedResults(bf.files, iconNames, useCache),
                toFetch |-> toFetch, pos |-> 1,
                manifest |-> bf.manifest, loaded |-> bf.manifest,
                fetched |-> {}, failed |-> {},
                done |-> toFetch = << >>]]
  /\ UNCHANGED <<comp, res, store, fx, ld, tc, sc, mc>>

\* The awaited fetchFromAPI settles: the loop body finishes, and the loop
\* goes on to the next identifier or saves the manifest and returns.
FetchSettles(answers) ==
  /\ bf.run.active /\ ~bf.run.done
  /\ LET iconName == bf.run.toFetch[bf.run.pos]
         ok == fetchFromAPI(iconName, answers, 1)
         run == IF ok THEN AfterSuccess(bf.run, iconName)
                      ELSE AfterFailure(bf.run, iconName)
         files == IF ok THEN saveToCache(bf.files, iconName, [icon |-> iconName])
                        ELSE bf.files
         last == bf.run.pos = Len(bf.run.toFetch)
     IN bf' = [bf EXCEPT
          !.files = files,
          !.manifest = IF last THEN run.manifest ELSE @,
          !.run = [run EXCEPT !.pos = @ + 1, !.done = last]]
  /\ UNCHANGED <<comp, res, store, fx, ld, tc, sc, mc>>

NextBuildFetch ==
  \/ \E iconNames \in Batches, useCache \in BOOLEAN :
       FetchIconsStart(iconNames, useCache)
  \/ \E answers \in [1 .. Len(API_HOSTS) -> HostAnswers] : FetchSettles(answers)

SpecBuildFetch == InitBuildFetch /\ [][NextBuildFetch]_vars

(***************************************************************************)
(* The in-memory LRU cache (packages/turbo-cache/src/cache.ts).  mc holds  *)
(* the fields of one MemoryCache, the clock, and two records of what the   *)
(* caller did: recency lists the stored keys from the least to the most    *)
(* recently used, last describes the latest call of set.                   *)
(***************************************************************************)
\* Clock readings after construction, and lookups the counters count.
MaxAge == 2
MaxLookups == 2

DefaultMaxSize == 1000

McKeys == {"key1", "key2", "key3"}
McData == {"value1"}
MaxSizeOptions == {Undefined, Given(1), Given(2)}
DefaultTtlOptions == {Undefined, Given(2)}
McTtlOptions == {Undefined, Given(0), Given(1)}

\* a || b on optional numbers: undefined and 0 are falsy.
NumberOr(a, b) == IF a # Undefined /\ a[1] # 0 THEN a ELSE b

Without(f, key) == [k \in DOMAIN f \ {key} |-> f[k]]

McIsExpiredAtTtl(entry, now) ==
  IF entry.ttl = Undefined \/ entry.ttl[1] = 0 THEN FALSE
  ELSE now - entry.timestamp >= entry.ttl[1]

\* isExpired: age > ttl, never when the entry has no ttl.
McIsExpired(entry, now) ==
  IF entry.ttl = Undefined \/ entry.ttl[1] = 0 THEN FALSE
  ELSE now - entry.timestamp > entry.ttl[1]

removeFromAccessOrder(accessOrder, key) ==
  SelectSeq(accessOrder, LAMBDA k : k # key)

updateAccessOrderKeepsPlace(accessOrder, key) ==
  IF key \in Range(accessOrder) THEN accessOrder ELSE Append(accessOrder, key)

updateAccessOrder(accessOrder, key) ==
  Append(removeFromAccessOrder(accessOrder, key), key)

evictOldestKeepsOrder(m) ==
  IF m.accessOrder = << >> THEN m
  ELSE [m EXCEPT !.cache = Without(@, Head(m.accessOrder))]

\* evictOldest on the map and the list.
evictOldest(m) ==
  IF m.accessOrder = << >> THEN m
  ELSE [m EXCEPT !.cache = Without(@, Head(m.accessOrder)),
                 !.accessOrder = Tail(@)]

NeedsEvictionAboveMax(m, key) ==
  Cardinality(DOMAIN m.cache) > m.maxSize /\ key \notin DOMAIN m.cache

\* this.cache.size >= this.maxSize && !this.cache.has(key)
NeedsEviction(m, key) ==
  Cardinality(DOMAIN m.cache) >= m.maxSize /\ key \notin DOMAIN m.cache

\* The caller's record of use: key is now the most recently used.
Used(recency, key) == Append(SelectSeq(recency, LAMBDA k : k # key), key)

\* The caller's record restricted to the keys still stored.
Stored(recency, cache) == SelectSeq(recency, LAMBDA k : k \in DOMAIN cache)

NoSet == [op |-> "other", key |-> "", new |-> FALSE, full |-> FALSE,
          lru |-> "", gone |-> {}]

InitMemoryCache ==
  /\ comp = NoComps
  /\ res = << >>
  /\ store = EmptyStore
  /\ fx = Null
  /\ ld = Null
  /\ tc = Null
  /\ sc = Null
  /\ bf = Null
  /\ \E maxSize \in MaxSizeOptions, defaultTTL \in DefaultTtlOptions :
       mc = [cache |-> << >>, accessOrder |-> << >>,
             maxSize |-> IF NumberOr(maxSize, Undefined) = Undefined
                           THEN DefaultMaxSize ELSE maxSize[1],
             defaultTTL |-> defaultTTL,
             statsHits |-> 0, statsMisses |-> 0,
             now |-> 0, recency |-> << >>, last |-> NoSet]

McSet(key, data, ttl) ==
  /\ LET m == IF NeedsEviction(mc, key) THEN evictOldest(mc) ELSE mc
         entry == [data |-> data, timestamp |-> mc.now,
                   ttl |-> NumberOr(ttl, mc.defaultTTL)]
         cache == (key :> entry) @@ m.cache
     IN mc' = [m EXCEPT
          !.cache = cache,
          !.accessOrder = updateAccessOrder(@, key),
          !.recency = Used(Stored(@, cache), key),
          !.last = [op |-> "set", key |-> key,
                    new |-> key \notin DOMAIN mc.cache,
                    full |-> Cardinality(DOMAIN mc.cache) >= mc.maxSize,
                    lru |-> IF mc.recency = << >> THEN "" ELSE Head(mc.recency),
                    gone |-> DOMAIN mc.cache \ DOMAIN cache]]
  /\ UNCHANGED <<comp, res, store, fx, ld, tc, sc, bf>>

McGet(key) ==
  /\ mc.statsHits + mc.statsMisses < MaxLookups
  /\ mc' =
       IF key \notin DOMAIN mc.cache
         THEN [mc EXCEPT !.statsMisses = @ + 1, !.last = NoSet]
       ELSE IF McIsExpired(mc.cache[key], mc.now)
         THEN [mc EXCEPT !.cache = Without(@, key),
                         !.accessOrder = removeFromAccessOrder(@, key),
                         !.statsMisses = @ + 1,
                         !.recency = Stored(@, Without(mc.cache, key)),
                         !.last = NoSet]
       ELSE [mc EXCEPT !.accessOrder = updateAccessOrder(@, key),
                       !.statsHits = @ + 1,
                       !.recency = Used(@, key),
                       !.last = NoSet]
  /\ UNCHANGED <<comp, res, store, fx, ld, tc, sc, bf>>

McHas(key) ==
  /\ mc' =
       IF key \in DOMAIN mc.cache /\ McIsExpired(mc.cache[key], mc.now)
         THEN [mc EXCEPT !.cache = Without(@, key),
                         !.accessOrder = removeFromAccessOrder(@, key),
                         !.recency = Stored(@, Without(mc.cache, key)),
                         !.last = NoSet]
         ELSE [mc EXCEPT !.last = NoSet]
  /\ UNCHANGED <<comp, res, store, fx, ld, tc, sc, bf>>

McRemove(key) ==
  /\ mc' =
       IF key \in DOMAIN mc.cache
         THEN [mc EXCEPT !.cache = Without(@, key),
                         !.accessOrder = removeFromAccessOrder(@, key),
                         !.recency = Stored(@, Without(mc.cache, key)),
                         !.last = NoSet]
         ELSE [mc EXCEPT !.last = NoSet]
  /\ UNCHANGED <<comp, res, store, fx, ld, tc, sc, bf>>

McClear ==
  /\ mc' = [mc EXCEPT !.cache = << >>, !.accessOrder = << >>,
                      !.statsHits = 0, !.statsMisses = 0,
                      !.recency = << >>, !.last = NoSet]
  /\ UNCHANGED <<comp, res, store, fx, ld, tc, sc, bf>>

\* Date.now() moves on.
McTick ==
  /\ mc.now < MaxAge
  /\ mc' = [mc EXCEPT !.now = @ + 1]
  /\ UNCHANGED <<comp, res, store, fx, ld, tc, sc, bf>>

NextMemoryCache ==
  \/ \E key \in McKeys, data \in McData, ttl \in McTtlOptions : McSet(key, data, ttl)
  \/ \E key \in McKeys : McGet(key)
  \/ \E key \in McKeys : McHas(key)
  \/ \E key \in McKeys : McRemove(key)
  \/ McClear
  \/ McTick

SpecMemoryCache == InitMemoryCache /\ [][NextMemoryCache]_vars

\* The same cache used under two keys only, where expiry is looked at.
TtlKeys == {"key1", "key2"}

NextMemoryTtl ==
  \/ \E key \in TtlKeys, data \in McData, ttl \in McTtlOptions : McSet(key, data, ttl)
  \/ \E key \in TtlKeys : McGet(key)
  \/ \E key \in TtlKeys : McHas(key)
  \/ \E key \in TtlKeys : McRemove(key)
  \/ McClear
  \/ McTick

SpecMemoryTtl == InitMemoryCache /\ [][NextMemoryTtl]_vars

(***************************************************************************)
(* Properties of the component's resolution pipeline.                      *)
(***************************************************************************)
\* A resolution that was not abandoned before it finished.
NotAbandoned(r) == res[r].cancelledAt \in {"none", "done"}

\* C1: a mounted component whose name is a key of BUNDLED_ICONS presents
\* exactly the bundle's entry for that name, whatever the cache, the network
\* and the earlier resolutions of the same instance did.
C1_BundledNamePresentsBundleEntry ==
  \A c \in Comps :
    (comp[c].mounted /\ comp[c].name \in DOMAIN BUNDLED_ICONS)
      => Render(comp[c]) = [view |-> "icon", icon |-> BUNDLED_ICONS[comp[c].name]]

\* C2: a resolution of a bundled name does no asynchronous work: it is
\* finished when the effect returns, it never reads or writes the persistent
\* cache and never starts a network fetch.
C2_BundledDoesNoAsyncWork ==
  \A r \in DOMAIN res :
    res[r].name \in DOMAIN BUNDLED_ICONS
      => /\ res[r].pc = "done"
         /\ res[r].reads = 0
         /\ res[r].fetches = 0
         /\ res[r].writes = 0

C2_Witness ==
  \E r \in DOMAIN res :
    /\ res[r].name \in DOMAIN BUNDLED_ICONS
    /\ res[r].onLoad = 1
    /\ \E k \in CacheKeys : Truthy(store[k])

\* C3: in every resolution whose persistent-cache read returned an entry,
\* loadIcon is never started, abandoned or not.
C3_NoFetchAfterCacheHit ==
  \A r \in DOMAIN res : res[r].readHit => res[r].fetches = 0

\* C4: once a resolution of a name has fetched it and written it to the
\* persistent cache, a later resolution of the same name that finds the entry
\* still stored (and readable) does not invoke the network fetcher.
C4_NoSecondFetchWhilePopulated ==
  \A r1, r2 \in DOMAIN res :
    ( /\ r1 < r2
      /\ res[r1].name = res[r2].name
      /\ res[r1].fetchOutcome = "ok"
      /\ res[r1].writeOutcome = "ok"
      /\ res[r2].nativeRead = "hit" )
      => res[r2].fetches = 0

\* C5: a step of an abandoned resolution (a result arriving after the
\* cleanup ran) updates no component state and invokes neither onLoad nor
\* onError.
C5_NoEffectsAfterAbandon ==
  [][ \A r \in DOMAIN res :
        (res[r].cancelled /\ res'[r].pc # res[r].pc)
          => /\ comp' = comp
             /\ res'[r].onLoad = res[r].onLoad
             /\ res'[r].onError = res[r].onError ]_vars

C5_Witness ==
  \E r1, r2 \in DOMAIN res :
    /\ res[r1].pc = "done" /\ res[r1].cancelledAt = "cacheRead"
    /\ res[r1].writeOutcome = "ok"
    /\ res[r2].pc = "done" /\ res[r2].cancelledAt = "write"
    /\ res[r2].writeOutcome = "ok"

\* C6: when the name is not bundled, the cache read found nothing and the
\* network tier fails, the step that receives the failure sets the error
\* state to that error, clears loading, invokes onError once with it, and
\* writes nothing to the persistent cache.
C6_FetchFailureSurfaces ==
  [][ \A r \in DOMAIN res :
        (res[r].pc = "fetch" /\ ~res[r].cancelled /\ ~res[r].readHit
           /\ res'[r].pc = "done")
          => /\ res'[r].fetchOutcome \in LoadErrors
             /\ comp'[res[r].comp].error = res'[r].fetchOutcome
             /\ ~comp'[res[r].comp].loading
             /\ res'[r].onError = 1
             /\ res'[r].errArg = res'[r].fetchOutcome
             /\ res'[r].onLoad = 0
             /\ res'[r].writes = 0
             /\ store' = store ]_vars

C6_Witness ==
  \E r \in DOMAIN res :
    /\ res[r].pc = "done" /\ NotAbandoned(r)
    /\ res[r].nativeRead = "miss"
    /\ res[r].fetchOutcome \in LoadErrors
    /\ res[r].onError = 1
    /\ res[r].comp \in Comps /\ comp[res[r].comp].cur = r
    /\ Render(comp[res[r].comp]).view = "error"

\* C7: a resolution that is not abandoned and whose network fetch succeeded
\* delivers the fetched icon (onLoad once, no onError), whether its cache
\* write succeeded or failed.
C7_WriteIsFireAndForget ==
  \A r \in DOMAIN res :
    (res[r].fetchOutcome = "ok" /\ NotAbandoned(r) /\ res[r].pc = "done")
      => res[r].onLoad = 1 /\ res[r].onError = 0

\* C8: a persistent-cache read that fails (native error, or a corrupt stored
\* value) is a miss: the resolution enters the network tier, and no error is
\* reported for the read.
C8_ReadFailureFallsThrough ==
  \A r \in DOMAIN res :
    res[r].nativeRead \in {"fail", "corrupt"}
      => /\ ~res[r].readHit
         /\ res[r].fetches = 1
         /\ res[r].pc \in {"fetch", "write", "done"}
         /\ (res[r].pc = "fetch" => res[r].onError = 0)
         /\ res[r].fetchOutcome = "none" => res[r].pc = "fetch"

C8_Witness ==
  \E r1, r2 \in DOMAIN res :
    /\ res[r1].nativeRead = "fail" /\ res[r1].fetches = 1
    /\ res[r2].nativeRead = "corrupt" /\ res[r2].fetches = 1
    /\ NotAbandoned(r2) /\ res[r2].onLoad = 1

(***************************************************************************)
(* Properties of fetchIconData.                                            *)
(***************************************************************************)
\* The failures of an attempt that are transient.
Transient == {"NETWORK_ERROR", "TIMEOUT"}

\* Every call made to the first host failed with a transient error, and the
\* first call made to the second host succeeded.
FirstHostFailsSecondSucceeds ==
  /\ Len(fx.hosts) >= 2
  /\ \A i \in DOMAIN fx.calls :
       fx.calls[i].host = fx.hosts[1] => fx.calls[i].result \in Transient
  /\ \E i \in DOMAIN fx.calls :
       /\ fx.calls[i].host = fx.hosts[2]
       /\ fx.calls[i].result = "ok"
       /\ \A j \in 1 .. (i - 1) : fx.calls[j].host # fx.hosts[2]

\* C9: host fallback: when the first host fails transiently on every attempt
\* and the second host succeeds on its first attempt, fetchIconData has made
\* exactly maxRetries + 1 network calls, the first maxRetries of them to the
\* first host, and resolves with the second host's response.
C9_HostFallback ==
  (fx.pc = "resolved" /\ FirstHostFailsSecondSucceeds)
    => /\ Len(fx.calls) = fx.maxRetries + 1
       /\ \A i \in 1 .. fx.maxRetries : fx.calls[i].host = fx.hosts[1]
       /\ fx.result = Response(fx.hosts[2], fx.prefix, fx.name)

C9_Witness ==
  /\ fx.pc = "resolved"
  /\ FirstHostFailsSecondSucceeds
  /\ fx.maxRetries = DefaultMaxRetries
  /\ \E i \in DOMAIN fx.calls : fx.calls[i].result = "TIMEOUT"

Retryable == {"NETWORK_ERROR", "TIMEOUT", "INVALID_RESPONSE"}

AllFailedRetryably ==
  \A i \in DOMAIN fx.calls : fx.calls[i].result \in Retryable

\* C11: retries are counted per host: fetchIconData never makes more than
\* hosts.length * maxRetries network attempts; once every attempt made has
\* failed with a retryable error it has made exactly that many, and it then
\* ends by rejecting.
C11_AttemptsBounded ==
  /\ Len(fx.calls) <= Len(fx.hosts) * fx.maxRetries
  /\ (fx.pc = "rejected" /\ fx.error # "PARSE_ERROR" /\ AllFailedRetryably)
       => Len(fx.calls) = Len(fx.hosts) * fx.maxRetries
  /\ (fx.pc # "idle" /\ fx.error # "PARSE_ERROR" /\ AllFailedRetryably
        /\ Len(fx.calls) = Len(fx.hosts) * fx.maxRetries)
       => fx.pc = "rejected"

C11_Witness ==
  /\ fx.pc = "rejected"
  /\ AllFailedRetryably
  /\ Len(fx.hosts) = 3
  /\ fx.maxRetries = DefaultMaxRetries
  /\ Len(fx.calls) = 9

\* C12: cancellation is terminal: once the caller's signal has fired during
\* a call of fetchIconData, the call makes no further attempt, on the
\* current host or any other, and starts no backoff wait.
C12_AbortIsTerminal ==
  [][(fx.aborted /\ fx.pc # "idle")
       => /\ Len(fx'.calls) = Len(fx.calls)
          /\ Len(fx'.waits) = Len(fx.waits)]_vars

\* The number of the i-th call among the calls made to its host.
AttemptNo(i) ==
  Cardinality({j \in 1 .. i : fx.calls[j].host = fx.calls[i].host})

\* The position of a host in the host list.
HostPos(h) == CHOOSE k \in DOMAIN fx.hosts : fx.hosts[k] = h

\* C13 as stated: after an attempt that failed with INVALID_RESPONSE its
\* host is not tried again.
C13_InvalidResponseLeavesHost ==
  \A i \in DOMAIN fx.calls :
    fx.calls[i].result = "INVALID_RESPONSE"
      => \A j \in (i + 1) .. Len(fx.calls) : fx.calls[j].host # fx.calls[i].host

\* C13: an attempt that fails with INVALID_RESPONSE is retried like any
\* other transient failure: the same host is tried again after a backoff
\* wait until it has had maxRetries attempts, then the next host is tried,
\* and only when no host is left does the call reject, with the aggregated
\* NETWORK_ERROR.
C13_InvalidResponseRetried ==
  \A i \in DOMAIN fx.calls :
    fx.calls[i].result = "INVALID_RESPONSE"
      => LET n == AttemptNo(i)
             k == HostPos(fx.calls[i].host)
         IN IF n < fx.maxRetries
              THEN \/ i = Len(fx.calls) /\ fx.pc = "backoff"
                   \/ i < Len(fx.calls) /\ fx.calls[i + 1].host = fx.calls[i].host
              ELSE IF k < Len(fx.hosts)
                THEN i < Len(fx.calls) /\ fx.calls[i + 1].host = fx.hosts[k + 1]
                ELSE /\ i = Len(fx.calls)
                     /\ fx.pc = "rejected"
                     /\ fx.error = "NETWORK_ERROR"

C13_Witness ==
  /\ fx.pc = "resolved"
  /\ Len(fx.calls) = 3
  /\ fx.calls[1].result = "INVALID_RESPONSE"
  /\ fx.calls[2].result = "INVALID_RESPONSE"
  /\ fx.calls[2].host = fx.calls[1].host
  /\ fx.calls[3].host # fx.calls[1].host
  /\ fx.calls[3].result = "ok"

\* C14: every attempt is bounded by the per-attempt timeout: no attempt is
\* still in flight once its timeout has elapsed, whether or not the caller
\* passed a signal.
C14_AttemptBoundedByTimeout ==
  ~(fx.pc = "attempt" /\ fx.overdue)

\* C15: when every host is exhausted fetchIconData rejects with one
\* aggregated NETWORK_ERROR whose details hold the failure of every attempt
\* made, one per attempt, in the order of the attempts.
C15_AggregatedError ==
  (fx.pc = "rejected" /\ fx.hostIdx > Len(fx.hosts))
    => /\ fx.error = "NETWORK_ERROR"
       /\ Len(fx.details) = Len(fx.calls)
       /\ \A i \in DOMAIN fx.calls :
            /\ fx.calls[i].result # "pending"
            /\ fx.details[i] = fx.calls[i].result

C15_Witness ==
  /\ fx.pc = "rejected"
  /\ fx.hostIdx > Len(fx.hosts)
  /\ Len(fx.hosts) = 2
  /\ Len(fx.calls) = 4
  /\ fx.details = <<"NETWORK_ERROR", "INVALID_RESPONSE", "TIMEOUT", "NETWORK_ERROR">>

\* The wait the backoff schedule prescribes after the n-th failed attempt on
\* a host: 1000, 2000, 4000, then 5000 ms for every later one.
ScheduledWait(n) ==
  CASE n = 1 -> 1000
    [] n = 2 -> 2000
    [] n = 3 -> 4000
    [] OTHER -> 5000

\* C16: between attempts n and n+1 on the same host fetchIconData waits
\* min(1000 * 2^(n-1), 5000) ms: every wait started has that length and none
\* exceeds 5000, every attempt after the first on a host follows such a wait,
\* and a further attempt on the same host starts only when the wait in
\* progress elapses.
C16_Backoff ==
  /\ [](/\ \A k \in DOMAIN fx.waits :
             /\ fx.waits[k].delay = ScheduledWait(fx.waits[k].after)
             /\ fx.waits[k].delay <= 5000
        /\ \A i \in DOMAIN fx.calls :
             AttemptNo(i) >= 2
               => \E k \in DOMAIN fx.waits :
                    /\ fx.waits[k].host = fx.calls[i].host
                    /\ fx.waits[k].after = AttemptNo(i) - 1)
  /\ [][(/\ Len(fx'.calls) = Len(fx.calls) + 1
         /\ fx.calls # << >>
         /\ fx'.calls[Len(fx'.calls)].host = fx.calls[Len(fx.calls)].host)
          => (fx.pc = "backoff" /\ fx.waits # << >>
              /\ fx.waits[Len(fx.waits)].host = fx.calls[Len(fx.calls)].host)]_vars

C16_Witness ==
  /\ fx.pc = "attempt"
  /\ Len(fx.calls) = 5
  /\ Len(fx.waits) = 4
  /\ \A k \in 1 .. 4 : fx.waits[k].after = k
  /\ fx.waits[3].delay = 4000
  /\ fx.waits[4].delay = 5000

\* An identifier is well formed when it splits on ':' into exactly two
\* segments, neither of them empty.
WellFormed(iconName) ==
  LET parts == Split(iconName) IN
  /\ Len(parts) = 2
  /\ parts[1] # << >>
  /\ parts[2] # << >>

\* C17: for an identifier that is not well formed ('invalid', 'a:b:c',
\* ':home', 'mdi:') fetchIconData rejects with PARSE_ERROR and makes no
\* network call.
C17_MalformedNameRejected ==
  (~WellFormed(fx.iconName) /\ fx.pc # "idle")
    => /\ fx.pc = "rejected"
       /\ fx.error = "PARSE_ERROR"
       /\ fx.calls = << >>

(***************************************************************************)
(* Properties of loadIcon.                                                 *)
(***************************************************************************)
\* The alias entry the identifier resolves through, when there is one.
AliasOf(l) ==
  LET name == Split(l.iconName)[2] IN
  IF l.response.aliases # Undefined /\ name \in DOMAIN l.response.aliases[1]
    THEN l.response.aliases[1][name]
    ELSE Undef

\* C18: an alias resolves to its parent's body while the alias's own
\* transformations win over the parent's and the collection's: with
\* aliases.f = {parent: "b", rotate: 1} and icons.b = {body: B, width: 24,
\* height: 24}, loadIcon("p:f") yields {body: B, width: 24, height: 24,
\* rotate: 1}.
C18_AliasOverridesWin ==
  (/\ ld.fetched
   /\ ld.iconName = <<"p", ":", "f">>
   /\ typeof(AliasOf(ld)) = "object"
   /\ AliasOf(ld).parent = <<"b">>
   /\ AliasOf(ld).rotate = Num(1)
   /\ ld.response.icons # Undefined
   /\ ld.response.icons[1][<<"b">>].body = Str("B")
   /\ ld.response.icons[1][<<"b">>].width = Num(24)
   /\ ld.response.icons[1][<<"b">>].height = Num(24))
    => /\ ld.pc = "resolved"
       /\ ld.result.body = Str("B")
       /\ ld.result.width = Num(24)
       /\ ld.result.height = Num(24)
       /\ ld.result.rotate = Num(1)

\* The entry of `icons` the identifier resolves to (through its alias, when
\* it has one), or Undef when the response holds none.
FoundIcon(l) ==
  LET name == ResolvedName(l.response, Split(l.iconName)[2]) IN
  IF l.response.icons # Undefined /\ name \in DOMAIN l.response.icons[1]
    THEN l.response.icons[1][name]
    ELSE Undef

\* A field of the found icon after the collection's default is merged in.
Effective(l, field) ==
  IF FoundIcon(l)[field] = Undef THEN l.response[field] ELSE FoundIcon(l)[field]

\* The body is a non-empty string and width and height are positive numbers.
ValidIcon(body, width, height) ==
  /\ body.t = "string" /\ body.s # ""
  /\ width.t = "number" /\ width.n >= 1
  /\ height.t = "number" /\ height.n >= 1

\* C19: loadIcon never returns an icon whose body is missing or empty or
\* whose width or height is missing or not positive: when the icon found,
\* with the collection's defaults merged in, is such an icon, loadIcon
\* rejects with PARSE_ERROR; otherwise it returns it.
C19_OnlyValidIconsReturned ==
  /\ ld.pc = "resolved"
       => ValidIcon(ld.result.body, ld.result.width, ld.result.height)
  /\ (ld.fetched /\ FoundIcon(ld) # Undef)
       => IF ValidIcon(FoundIcon(ld).body, Effective(ld, "width"),
                       Effective(ld, "height"))
            THEN ld.pc = "resolved"
            ELSE ld.pc = "rejected" /\ ld.error = "PARSE_ERROR"

C19_Witness ==
  /\ ld.fetched
  /\ ld.pc = "rejected"
  /\ ld.error = "PARSE_ERROR"
  /\ FoundIcon(ld) # Undef
  /\ FoundIcon(ld).body = Str("B")
  /\ FoundIcon(ld).width = Undef
  /\ ld.response.width = Undef
  /\ Effective(ld, "height") = Num(16)

(***************************************************************************)
(* Properties of the persistent cache.                                     *)
(***************************************************************************)
\* The get just made was answered by the native module, for a key whose
\* last set carried a positive ttl and has not been removed since.
GotAfterSetWithTtl ==
  /\ tc.got # Null
  /\ ~tc.got.failed
  /\ tc.written[tc.got.key] # Null
  /\ tc.written[tc.got.key].ttl # Undefined
  /\ tc.written[tc.got.key].ttl[1] > 0

StoredEntries == {l \in DOMAIN tc.files : tc.files[l] # Null}

\* C21: a get(k) that finds an expired entry deletes it from the native
\* store, on every platform: right after a get the native module answered,
\* the store holds no expired entry under that key for size() to count.
C21_ExpiredEntryDeletedOnRead ==
  (tc.got # Null /\ ~tc.got.failed)
    => \A l \in StoredEntries :
         l = Location(tc.platform, tc.got.key) => ~isExpired(tc.files[l], tc.now)

\* C22: failures of the persistent cache reach the caller of get and set as
\* labelled errors: a native failure as NATIVE_ERROR, a stored value that is
\* not JSON as SERIALIZATION_ERROR on get, a value that cannot be encoded as
\* SERIALIZATION_ERROR on set.
C22_FailuresAreLabelled ==
  /\ tc.got # Null
       => LET entry == tc.files[Location(tc.platform, tc.got.key)] IN
          /\ tc.got.failed => tc.got.error = "NATIVE_ERROR"
          /\ (~tc.got.failed /\ entry # Null /\ ~isExpired(entry, tc.now)
                /\ entry.value = Corrupt)
               => tc.got.error = "SERIALIZATION_ERROR"
  /\ tc.put # Null
       => /\ tc.put.circular => tc.put.error = "SERIALIZATION_ERROR"
          /\ (~tc.put.circular /\ tc.put.failed)
               => tc.put.error = "NATIVE_ERROR"

\* C23: icons the component saves carry the 24-hour default TTL: a read of
\* a saved icon made more than 24 hours after the save finds nothing, so
\* that the icon is fetched again.
C23_SavedIconExpiresAfterADay ==
  (/\ tc.got # Null
   /\ ~tc.got.failed
   /\ tc.written[tc.got.key] # Null
   /\ tc.now - tc.written[tc.got.key].at > DefaultTTL)
    => tc.got.value = Null

(***************************************************************************)
(* Properties of the usage scanner.                                        *)
(***************************************************************************)
\* The identifiers the literals of a set of files normalise to.
LiteralsOf(files) ==
  UNION { {toLowerCase(l) : l \in sc.tree[f].literals} : f \in files }

\* C24: a file that does not reference the rendering component contributes
\* no identifier: every identifier of a scan result comes from a literal of
\* a file that references the component.
C24_UnreferencingFilesSkipped ==
  \A n \in DOMAIN sc.scans :
    Range(sc.scans[n].result.icons)
      \subseteq LiteralsOf({f \in SourceFiles : sc.tree[f].refs})

\* C25: every identifier the scanner emits is lower-case, splits on ':'
\* into exactly two non-empty segments, has a prefix of the allow-list, and
\* a name of [a-z0-9-] characters that neither starts nor ends with '-'.
C25_EmittedIdentifiersWellFormed ==
  \A n \in DOMAIN sc.scans :
    \A id \in Range(sc.scans[n].result.icons) :
      LET parts == Split(id) IN
      /\ \A i \in DOMAIN id : id[i] \notin {"A", "C", "I"}
      /\ Len(parts) = 2
      /\ parts[1] # << >>
      /\ parts[2] # << >>
      /\ parts[1] \in VALID_ICONIFY_PREFIXES
      /\ \A i \in DOMAIN parts[2] : parts[2][i] \in Alnum \cup {"-"}
      /\ parts[2][1] # "-"
      /\ parts[2][Len(parts[2])] # "-"

\* A scan read a file holding an upper-case literal and a file holding names
\* with a leading and a trailing '-', and emitted an identifier.
C25_Witness ==
  \E n \in DOMAIN sc.scans :
    /\ ~sc.scans[n].result.threw
    /\ IcA \in Range(sc.scans[n].result.icons)
    /\ \A f \in SourceFiles : sc.tree[f].readable
    /\ \E f \in SourceFiles : sc.tree[f].literals = {IcAUpper}
    /\ \E f \in SourceFiles : sc.tree[f].literals = {IcDashA, IcADash}

\* C26: two scans of an unchanged tree produce the same identifiers in the
\* same sorted, duplicate-free order, whatever order the files are listed in.
C26_ScanDeterministic ==
  \A m, n \in DOMAIN sc.scans :
    /\ sc.scans[m].result = sc.scans[n].result
    /\ LET icons == sc.scans[n].result.icons IN
       \A i, j \in DOMAIN icons : i < j => Before(icons[i], icons[j])

\* C27: an unreadable file is not fatal to a scan, and the identifiers of
\* every readable file that references the component are in the result.
C27_UnreadableFileSkipped ==
  \A n \in DOMAIN sc.scans :
    (\E f \in SourceFiles : ~sc.tree[f].readable) =>
      /\ ~sc.scans[n].result.threw
      /\ \A f \in SourceFiles :
           sc.tree[f].readable /\ sc.tree[f].refs =>
             extractIconNames(sc.tree[f]) \subseteq Range(sc.scans[n].result.icons)

(***************************************************************************)
(* Properties of the build-time fetch.                                     *)
(***************************************************************************)
\* C28: a failed identifier does not end the run, is not in the
\* returned results and is not in the build cache on disk, neither as a
\* cache file nor as a manifest entry.
C28_FailedIdentifierOmitted ==
  bf.run.active =>
    /\ \A n \in bf.run.failed :
         /\ n \notin DOMAIN bf.run.results
         /\ getCacheFilePath(n) \notin DOMAIN bf.files
         /\ n \notin bf.manifest
    /\ bf.run.done =>
         Range(bf.run.toFetch) = bf.run.fetched \cup bf.run.failed

(***************************************************************************)
(* Properties of the in-memory LRU cache.                                  *)
(***************************************************************************)
\* C29: a MemoryCache constructed with maxSize N >= 1 never holds more than
\* N entries, whatever set, get, has, remove and clear were called.
C29_SizeWithinMaxSize == Cardinality(DOMAIN mc.cache) <= mc.maxSize

\* A set of a new key has just found the cache full, and the cache is full.
C29_Witness ==
  /\ mc.last.op = "set"
  /\ mc.last.new
  /\ mc.last.full
  /\ Cardinality(DOMAIN mc.cache) = mc.maxSize

\* C30: a set of a new key that finds the cache full evicts exactly one
\* entry, the least recently used one, where a set and a get that returned
\* a value are uses; a set of a key already stored evicts nothing.
C30_EvictsLeastRecentlyUsed ==
  mc.last.op = "set" =>
    IF mc.last.new /\ mc.last.full
      THEN mc.last.gone = {mc.last.lru}
      ELSE mc.last.gone = {}

\* A set has just evicted the least recently used key from a full cache of
\* two entries after a get returned a value.
C30_Witness ==
  /\ mc.last.op = "set"
  /\ mc.last.new
  /\ mc.last.full
  /\ mc.maxSize = 2
  /\ mc.statsHits > 0
  /\ mc.last.gone = {mc.last.lru}

(***************************************************************************)
(* Further properties of fetchIconData.                                    *)
(***************************************************************************)
\* The calls made to the host at position k of the host list.
CallsTo(k) == {i \in DOMAIN fx.calls : fx.calls[i].host = fx.hosts[k]}

\* C31: hosts are tried strictly in list order: the first attempt goes to
\* the first host, an attempt goes to host k+1 only after maxRetries attempts
\* on host k have all failed, no host is skipped, and a host that has been
\* left is never tried again within the same fetch.
C31_HostsInListOrder ==
  /\ fx.calls # << >> => fx.calls[1].host = fx.hosts[1]
  /\ \A i, j \in DOMAIN fx.calls :
       i < j => HostPos(fx.calls[i].host) <= HostPos(fx.calls[j].host)
  /\ \A j \in DOMAIN fx.calls :
       LET k == HostPos(fx.calls[j].host) IN
       k > 1 =>
         /\ Cardinality(CallsTo(k - 1)) = fx.maxRetries
         /\ \A i \in CallsTo(k - 1) : i < j /\ fx.calls[i].result \in Retryable

\* The second host has been left for the third after both earlier hosts
\* used up their attempts.
C31_Witness ==
  /\ Len(fx.hosts) = 3
  /\ fx.maxRetries >= 2
  /\ Cardinality(CallsTo(1)) = fx.maxRetries
  /\ Cardinality(CallsTo(2)) = fx.maxRetries
  /\ CallsTo(3) # {}

(***************************************************************************)
(* Further properties of the component.                                    *)
(***************************************************************************)
\* The value the persistent cache holds under a key, Null when it holds
\* nothing readable.
Held(st, key) ==
  IF Truthy(st[key]) /\ st[key] # Corrupt THEN JSONparse(st[key]).value ELSE Null

\* Resolution r fetched from the network and wrote the cache, and its caller
\* did not abandon it.
RacedThrough(rs, r) ==
  /\ rs[r].pc = "done"
  /\ ~rs[r].cancelled
  /\ rs[r].fetchOutcome = "ok"
  /\ rs[r].writeOutcome = "ok"

\* C32: when two callers resolve the same cold name concurrently and both
\* fetch it and write it, then at the moment the second one finishes each
\* caller shows the same icon, and the persistent cache holds exactly that
\* icon under the name's key.
C32_RaceEndsWithOneValue ==
  [][\A r1, r2 \in DOMAIN res :
       ( /\ res[r1].pc = "write"
         /\ r1 # r2
         /\ res[r1].comp # res[r2].comp
         /\ res[r1].name = res[r2].name
         /\ RacedThrough(res', r1)
         /\ RacedThrough(res', r2) )
       => /\ Held(store', getCacheKey(res[r1].name)) = NetIcon(res[r1].name)
          /\ \A r \in {r1, r2} :
               comp'[res[r].comp].cur = r
                 => /\ comp'[res[r].comp].iconData = NetIcon(res[r].name)
                    /\ Render(comp'[res[r].comp]).view = "icon"]_vars

\* Two callers of the same name both went to the network and both wrote,
\* and both show the icon.
C32_Witness ==
  \E r1, r2 \in DOMAIN res :
    /\ r1 # r2
    /\ res[r1].comp # res[r2].comp
    /\ res[r1].name = res[r2].name
    /\ RacedThrough(res, r1)
    /\ RacedThrough(res, r2)
    /\ res[r1].writes = 1 /\ res[r2].writes = 1
    /\ Render(comp[res[r1].comp]).view = "icon"
    /\ Render(comp[res[r2].comp]).view = "icon"

\* Resolution r was abandoned while its cache read or its fetch was in
\* flight.
AbandonedInFlight(rs, r) ==
  rs[r].cancelled /\ rs[r].cancelledAt \in {"cacheRead", "fetch"}

\* C33: a resolution abandoned while its cache read or fetch is in flight
\* is not aborted: a fetch that then succeeds is followed by the cache write,
\* a write the native store accepts leaves the fetched icon in the cache, a
\* later resolution of the name that reads the entry is served from the
\* cache without a fetch, and the abandoned caller gets neither onLoad nor
\* onError nor a state change.
C33_AbandonedStillPopulates ==
  /\ [](\A r \in DOMAIN res :
          /\ (AbandonedInFlight(res, r) /\ res[r].fetchOutcome = "ok")
               => res[r].writes = 1
          /\ AbandonedInFlight(res, r)
               => res[r].onLoad = 0 /\ res[r].onError = 0
          /\ (res[r].nativeRead = "hit" /\ res[r].cancelledAt # "cacheRead")
               => res[r].readHit /\ res[r].fetches = 0 /\ res[r].onLoad = 1)
  /\ [][\A r \in DOMAIN res :
          ( /\ AbandonedInFlight(res, r)
            /\ res[r].pc # "done"
            /\ res'[r].pc # res[r].pc )
          => /\ comp' = comp
             /\ res'[r].writeOutcome = "ok"
                  => Held(store', getCacheKey(res[r].name)) = NetIcon(res[r].name)]_vars

\* A resolution abandoned in flight has written the cache, and a later
\* resolution of the same name was served from the cache.
C33_Witness ==
  \E r1, r2 \in DOMAIN res :
    /\ r1 < r2
    /\ res[r1].name = res[r2].name
    /\ AbandonedInFlight(res, r1)
    /\ res[r1].writeOutcome = "ok"
    /\ res[r2].readHit
    /\ res[r2].fetches = 0
    /\ ~res[r2].cancelled
    /\ Render(comp[res[r2].comp]).view = "icon"

\* C35: a mounted component is never left showing the loading indicator
\* while no resolution for its current name is in flight, so that, every
\* cache and network operation terminating, each resolution that is not
\* abandoned ends with the current name's icon or an error being shown.
C35_LoadingOnlyWhileInFlight ==
  \A c \in Comps :
    (comp[c].mounted /\ Render(comp[c]).view = "loading")
      => /\ comp[c].cur \in DOMAIN res
         /\ res[comp[c].cur].name = comp[c].name
         /\ res[comp[c].cur].pc # "done"
         /\ ~res[comp[c].cur].cancelled

\* C36: while a mounted component's name is unchanged, a re-render, also
\* one that passes new onLoad/onError functions, starts no further cache
\* read and no further onLoad call for that name (nor, after the read, a
\* further fetch): the read, the fetch and onLoad happen at most once.
C36_RerenderRepeatsNothing ==
  [][\A c \in Comps :
       ( /\ comp[c].mounted
         /\ comp'[c].mounted
         /\ comp'[c].name = comp[c].name
         /\ comp'[c].cur # comp[c].cur )
       => /\ res'[comp'[c].cur].reads = 0
          /\ res'[comp'[c].cur].onLoad = 0
          /\ res'[comp'[c].cur].pc = "done"]_vars

(***************************************************************************)
(* Further properties of the in-memory LRU cache.                          *)
(***************************************************************************)
\* The TTL an entry has when set is called with ttl: the TTL passed, or else
\* the cache's defaultTTL, Undefined when there is neither.
EffectiveTtl(ttl) ==
  IF ttl # Undefined /\ ttl[1] > 0 THEN ttl
  ELSE IF mc.defaultTTL # Undefined /\ mc.defaultTTL[1] > 0 THEN mc.defaultTTL
  ELSE Undefined

\* The entry under key is past its TTL now.
PastTtl(key) ==
  /\ mc.cache[key].ttl # Undefined
  /\ mc.now - mc.cache[key].timestamp > mc.cache[key].ttl[1]

\* C34: set gives the entry the TTL passed, or else the cache's defaultTTL;
\* get returns a stored entry as long as its age does not exceed that TTL;
\* once it does, get and has report the entry absent and remove it; an entry
\* with neither TTL is never removed by get or has.
C34_TtlExpiry ==
  [][/\ \A key \in TtlKeys, data \in McData, ttl \in McTtlOptions :
          McSet(key, data, ttl)
            => /\ mc'.cache[key].ttl = EffectiveTtl(ttl)
               /\ mc'.cache[key].timestamp = mc.now
     /\ \A key \in DOMAIN mc.cache :
          /\ McGet(key)
               => IF PastTtl(key)
                    THEN /\ key \notin DOMAIN mc'.cache
                         /\ mc'.statsMisses = mc.statsMisses + 1
                    ELSE /\ key \in DOMAIN mc'.cache
                         /\ mc'.statsHits = mc.statsHits + 1
          /\ McHas(key) => (key \in DOMAIN mc'.cache <=> ~PastTtl(key))]_vars

\* An entry set with an explicit TTL of 1 is still stored at the age of 1,
\* while another entry has been removed.
C34_Witness ==
  \E key \in DOMAIN mc.cache :
    /\ mc.cache[key].ttl = Given(1)
    /\ mc.defaultTTL = Given(2)
    /\ mc.now - mc.cache[key].timestamp = 1
    /\ mc.statsHits > 0
    /\ mc.statsMisses > 0
    /\ mc.accessOrder[Len(mc.accessOrder)] = key

\* C39: after every public operation accessOrder lists each stored key
\* exactly once and no other key, so that its head is a stored key.
C39_AccessOrderMirrorsMap ==
  /\ Len(mc.accessOrder) = Cardinality(DOMAIN mc.cache)
  /\ Range(mc.accessOrder) = DOMAIN mc.cache
  /\ mc.accessOrder # << >> => Head(mc.accessOrder) \in DOMAIN mc.cache

\* An eviction, an expiry seen by a lookup and a lookup that moved a key
\* have all acted on a cache that still holds two entries.
C39_Witness ==
  /\ mc.maxSize = 2
  /\ Len(mc.accessOrder) = 2
  /\ mc.statsHits > 0
  /\ mc.statsMisses > 0
  /\ mc.last.op = "set"
  /\ mc.last.gone # {}

(***************************************************************************)
(* Properties of the shared native store.                                  *)
(***************************************************************************)
\* C37: clear() removes the entries written through this cache and leaves
\* what other consumers of the shared native store hold untouched.
C37_ClearLeavesForeignEntries ==
  [][CacheClear
       => /\ \A k \in ShKeys : tc'.files[Location(tc.platform, k)] = Null
          /\ \A l \in ForeignLocations : tc'.files[l] = tc.files[l]]_vars

\* C38: keys never collide in the native store: two distinct keys that are
\* stored are kept at distinct locations, and a get returns what was last
\* set under its own key and not removed since, whatever was set or removed
\* under another key.
C38_KeysNeverCollide ==
  /\ \A k1, k2 \in ShKeys :
       (k1 # k2 /\ tc.written[k1] # Null /\ tc.written[k2] # Null)
         => Location(tc.platform, k1) # Location(tc.platform, k2)
  /\ (tc.got # Null /\ ~tc.got.failed)
       => tc.got.value = IF tc.written[tc.got.key] = Null
                           THEN Null
                           ELSE tc.written[tc.got.key].data

====
